---- MODULE Spec2Model ----
(***************************************************************************)
(* httphound: flow correlation (src/stream/mod.rs), the HTTP message codec *)
(* (src/http/mod.rs) and the ingestion loop (src/main.rs).                 *)
(*                                                                         *)
(* A byte buffer is a sequence of units.  A unit is one lexical element of *)
(* an HTTP message: a request line, a status line, a header line, the      *)
(* blank line that ends the header block, or one unit of body data.        *)
(* Offsets and Content-Length values count units.                          *)
(***************************************************************************)
EXTENDS Integers, Sequences, FiniteSets, TLC

(***************************************************************************)
(* Bounds                                                                  *)
(***************************************************************************)
MaxPackets == 3
MaxHeaders == 2
MaxBody == 1
MaxCalls == 2
MaxPath == 2

(***************************************************************************)
(* Option and Result values                                                *)
(***************************************************************************)
None == [some |-> FALSE]
Some(v) == [some |-> TRUE, val |-> v]

Ok(v) == [tag |-> "Ok", val |-> v]
Err(m) == [tag |-> "Err", msg |-> m]
Panic == [tag |-> "Panic"]

(***************************************************************************)
(* Units of a byte buffer                                                  *)
(***************************************************************************)
ReqLine(path) == [k |-> "req", method |-> "GET", path |-> path, version |-> 1]
StaLine == [k |-> "sta", version |-> 1, code |-> 200, reason |-> "OK"]
Hdr(n, v) == [k |-> "hdr", name |-> n, value |-> v]
End == [k |-> "end"]
Body(b) == [k |-> "body", b |-> b]

\* body data: a space (valid UTF-8 text), the byte 0xFF (never valid in
\* UTF-8), one complete gzip member (binary, holds the text "sp" compressed)
BodyData == {"sp", "xFF", "gz"}

\* header values: "xFF" stands for a value holding the byte 0xFF, which
\* httparse accepts in a header value (obs-text) and which is not UTF-8
Utf8Value(v) == v # "xFF"

Utf8Unit(u) ==
  CASE u.k = "body" -> u.b = "sp"
    [] u.k = "hdr" -> Utf8Value(u.value)
    [] OTHER -> TRUE

\* String::from_utf8 on a buffer: Some(the same units as text) or None
from_utf8(buf) ==
  IF \A i \in 1..Len(buf) : Utf8Unit(buf[i]) THEN Some(buf) ELSE None

\* a fixed replacement text, as one text unit
Text(s) == <<[k |-> "text", s |-> s]>>

\* str::to_lowercase on the header names of the model
to_lowercase(s) ==
  CASE s = "Content-Length" -> "content-length"
    [] s = "Content-Encoding" -> "content-encoding"
    [] OTHER -> s

\* usize::from_str(v).ok() on the header values of the model
usize_from_str(v) ==
  CASE v = "0" -> Some(0)
    [] v = "1" -> Some(1)
    [] v = "2" -> Some(2)
    [] v = "3" -> Some(3)
    [] OTHER -> None

(***************************************************************************)
(* httparse: Request::parse / Response::parse.  Leading empty lines are    *)
(* skipped, then the start line and the header lines up to the blank line. *)
(* "Complete" carries the offset of the first unit after the blank line.   *)
(***************************************************************************)
MAX_HEADERS == 16

RECURSIVE SkipEmpty(_, _)
SkipEmpty(buf, i) ==
  IF i <= Len(buf) /\ buf[i].k = "end" THEN SkipEmpty(buf, i + 1) ELSE i

RECURSIVE SkipHeaders(_, _)
SkipHeaders(buf, j) ==
  IF j <= Len(buf) /\ buf[j].k = "hdr" THEN SkipHeaders(buf, j + 1) ELSE j

httparse(buf, start) ==
  LET i == SkipEmpty(buf, 1)
      j == SkipHeaders(buf, i + 1)
  IN  IF i > Len(buf) THEN [st |-> "Partial"]
      ELSE IF buf[i].k # start THEN [st |-> "Err"]
      ELSE IF j - (i + 1) > MAX_HEADERS THEN [st |-> "Err"]
      ELSE IF j > Len(buf) THEN [st |-> "Partial"]
      ELSE IF buf[j].k # "end" THEN [st |-> "Err"]
      ELSE [st |-> "Complete", n |-> j, line |-> buf[i],
            headers |-> SubSeq(buf, i + 1, j - 1)]

\* BytesMut::split_to(n) leaves the units after the first n
split_off(buf, n) == SubSeq(buf, n + 1, Len(buf))

\* HashMap::insert over the parsed header lines, in order
RECURSIVE insert_headers(_, _)
insert_headers(m, hs) ==
  IF hs = <<>> THEN m
  ELSE LET h == Head(hs)
           keep == DOMAIN m \ {h.name}
       IN  insert_headers([x \in keep \cup {h.name} |->
                             IF x = h.name THEN h.value ELSE m[x]], Tail(hs))

EmptyMap == [x \in {} |-> "-"]

\* get_content_length iterates the HashMap in an order the program does not
\* control and returns at the first key that lower-cases to content-length:
\* the set of the values it can return
get_content_length(headers) ==
  LET hits == {k \in DOMAIN headers : to_lowercase(k) = "content-length"}
  IN  IF hits = {} THEN {None}
      ELSE {usize_from_str(headers[k]) : k \in hits}

\* MultiGzDecoder + read_to_string: every unit must be a complete gzip
\* member; what the decoder makes of an empty stream is left open
GzPlain == Body("sp")

unzip_content(buf) ==
  IF buf = <<>> THEN {Ok(<<>>), Err(<<"gzip">>)}
  ELSE IF \A i \in 1..Len(buf) : buf[i] = Body("gz")
       THEN {Ok([i \in 1..Len(buf) |-> GzPlain])}
       ELSE {Err(<<"gzip">>)}

unwrap_or(o, d) == IF o.some THEN o.val ELSE d

\* parse_request: the set of its possible outcomes on buf
parse_request(buf) ==
  LET res == httparse(buf, "req")
  IN  IF res.st = "Err" THEN {Err(<<"httparse">>)}
      ELSE IF res.st = "Partial" THEN {Err(<<"Partial request">>)}
      ELSE IF \E i \in 1..Len(res.headers) : ~Utf8Value(res.headers[i].value)
           THEN {Panic}
      ELSE
        LET headers == insert_headers(EmptyMap, res.headers)
            req == [method |-> res.line.method, path |-> res.line.path,
                    version |-> res.line.version, headers |-> headers,
                    body |-> None]
            rest == split_off(buf, res.n)
            with_length(cl) ==
              IF cl.some /\ cl.val > 0
              THEN IF cl.val > Len(rest) THEN Panic
                   ELSE Ok([req EXCEPT !.body =
                          Some(unwrap_or(from_utf8(SubSeq(rest, 1, cl.val)),
                                         Text("Body encoding error")))])
              ELSE Ok(req)
        IN  {with_length(cl) : cl \in get_content_length(headers)}

\* a variant that knows gzip only and takes any other encoding for none
get_content_encoding_gzip(headers) ==
  IF "Content-Encoding" \in DOMAIN headers
     /\ headers["Content-Encoding"] = "gzip"
  THEN Some("gzip") ELSE None

\* HashMap::get("Content-Encoding"): the exact key
get_content_encoding(headers) ==
  IF "Content-Encoding" \in DOMAIN headers
  THEN Some(headers["Content-Encoding"]) ELSE None

\* parse_response: the set of its possible outcomes on buf
parse_response(buf) ==
  LET res == httparse(buf, "sta")
  IN  IF res.st = "Err" THEN {Panic}
      ELSE IF res.st = "Partial" THEN {Err(<<"Partial response">>)}
      ELSE IF \E i \in 1..Len(res.headers) : ~Utf8Value(res.headers[i].value)
           THEN {Err(<<"FromUtf8Error">>)}
      ELSE
        LET headers == insert_headers(EmptyMap, res.headers)
            resp == [version |-> res.line.version, code |-> res.line.code,
                     reason |-> Some(res.line.reason), headers |-> headers,
                     body |-> None]
            rest == split_off(buf, res.n)
            enc == get_content_encoding(headers)
            with_body(body_buf) ==
              IF enc.some
              THEN IF enc.val = "gzip"
                   THEN {IF z.tag = "Ok"
                         THEN Ok([resp EXCEPT !.body = Some(z.val)]) ELSE z :
                         z \in unzip_content(body_buf)}
                   ELSE {Err(<<"Unknown encoding", enc.val>>)}
              ELSE {Ok([resp EXCEPT !.body =
                      Some(unwrap_or(from_utf8(body_buf),
                                     Text("Encoding error")))])}
            with_length(cl) ==
              IF cl.some
              THEN IF cl.val > Len(rest) THEN {Panic}
                   ELSE with_body(SubSeq(rest, 1, cl.val))
              ELSE {Ok(resp)}
        IN  UNION {with_length(cl) : cl \in get_content_length(headers)}

(***************************************************************************)
(* Flow buffer (HttpStream) and flow store (Store)                         *)
(***************************************************************************)
Endpoints == {"a", "b"}

\* payloads a captured TCP segment can carry: nothing, a whole request,
\* a whole response
ReqBytes == <<ReqLine(<<"/", "a">>), End>>
RespBytes == <<StaLine, End>>
Payloads == {<<>>, ReqBytes, RespBytes}

\* EnrichedPacket: the decoded packet (its TCP payload stands for the frame)
Packets == [source : Endpoints, dest : Endpoints, payload : Payloads,
            fin : BOOLEAN]

\* Args.path: no filter, or a literal that the request path must contain
Filters == {None, Some(<<"b">>)}

\* streams, next_id: the Store; args: the command line; aborted: the process
\* has panicked.  History: observed, the decoded packets in the order the
\* loop took them; last, what the last iteration did; parses, how often each
\* flow was parsed; sink, the flows printed.  buf, calls: a buffer and the
\* codec calls made on it.
VARIABLES streams, next_id, args, aborted, observed, last, parses, sink,
          buf, calls

vars == <<streams, next_id, args, aborted, observed, last, parses, sink,
          buf, calls>>

\* a variant that stores the endpoints the other way round
HttpStream_new_swapped(id, source, dest) ==
  [id |-> id, source |-> dest, dest |-> source, packets |-> <<>>,
   souce_fin |-> FALSE, dest_fin |-> FALSE,
   request |-> None, response |-> None]

HttpStream_new(id, source, dest) ==
  [id |-> id, source |-> source, dest |-> dest, packets |-> <<>>,
   souce_fin |-> FALSE, dest_fin |-> FALSE,
   request |-> None, response |-> None]

\* a variant that assigns the FIN flag instead of OR-ing it
append_request_packet_assign(s, packet) ==
  [s EXCEPT !.souce_fin = packet.fin,
            !.packets = Append(@, packet)]

append_request_packet(s, packet) ==
  [s EXCEPT !.souce_fin = IF packet.fin THEN TRUE ELSE @,
            !.packets = Append(@, packet)]

\* a variant that puts the packet in front of the stored ones
append_response_packet_front(s, packet) ==
  [s EXCEPT !.dest_fin = IF packet.fin THEN TRUE ELSE @,
            !.packets = <<packet>> \o @]

append_response_packet(s, packet) ==
  [s EXCEPT !.dest_fin = IF packet.fin THEN TRUE ELSE @,
            !.packets = Append(@, packet)]

\* a variant that takes one FIN for completion
is_complete_either(s) == s.souce_fin \/ s.dest_fin

is_complete(s) == s.souce_fin /\ s.dest_fin

\* the payloads of the stored packets whose source is e, in stored order
RECURSIVE collect(_, _)
collect(packets, e) ==
  IF packets = <<>> THEN <<>>
  ELSE (IF Head(packets).source = e THEN Head(packets).payload ELSE <<>>)
       \o collect(Tail(packets), e)

collect_request(s) == collect(s.packets, s.source)

collect_response(s) == collect(s.packets, s.dest)

\* a variant that goes on to the response when the request failed
parse_both(s) ==
  UNION {
    LET s1 == IF rq.tag = "Ok" THEN [s EXCEPT !.request = Some(rq.val)] ELSE s
    IN  {IF rs.tag # "Ok" THEN [stream |-> s1, res |-> rs]
         ELSE [stream |-> [s1 EXCEPT !.response = Some(rs.val)],
               res |-> IF rq.tag = "Ok" THEN Ok("unit") ELSE rq] :
         rs \in parse_response(collect_response(s1))} :
    rq \in parse_request(collect_request(s))}

\* HttpStream::parse: the possible outcomes, each with the stream it leaves
parse(s) ==
  UNION {
    IF rq.tag # "Ok" THEN {[stream |-> s, res |-> rq]}
    ELSE LET s1 == [s EXCEPT !.request = Some(rq.val)]
         IN  {IF rs.tag # "Ok" THEN [stream |-> s1, res |-> rs]
              ELSE [stream |-> [s1 EXCEPT !.response = Some(rs.val)],
                    res |-> Ok("unit")] :
              rs \in parse_response(collect_response(s1))} :
    rq \in parse_request(collect_request(s))}

\* a variant that looks at the start of the text only
contains_prefix(text, pat) ==
  /\ Len(pat) <= Len(text)
  /\ SubSeq(text, 1, Len(pat)) = pat

\* str::contains on sequences of characters
contains(text, pat) ==
  \E i \in 0..Len(text) :
    /\ i + Len(pat) <= Len(text)
    /\ SubSeq(text, i + 1, i + Len(pat)) = pat

is_matching(s, a) ==
  IF s.request.some
  THEN IF a.some THEN contains(s.request.val.path, a.val) ELSE TRUE
  ELSE FALSE

Store_new == [streams |-> [i \in {} |-> 0], next_id |-> 0]

\* a variant that matches the stored orientation only
lookup_stream_id_forward(st, source, dest) ==
  LET hits == {id \in DOMAIN st :
                 st[id].source = source /\ st[id].dest = dest}
  IN  IF hits = {} THEN {None} ELSE {Some(id) : id \in hits}

\* the loop over the HashMap returns at the first stream that matches, in
\* an order the program does not control: the set of the values it can return
lookup_stream_id(st, source, dest) ==
  LET hits == {id \in DOMAIN st :
                 \/ st[id].source = source /\ st[id].dest = dest
                 \/ st[id].source = dest /\ st[id].dest = source}
  IN  IF hits = {} THEN {None} ELSE {Some(id) : id \in hits}

\* a variant that does not advance the counter
get_next_id_stuck(n) == [id |-> n, next_id |-> n]

\* Store::get_next_id on a store whose counter is n
get_next_id(n) == [id |-> n, next_id |-> n + 1]

\* a variant that does not insert
add_stream_lost(st, stream) == st

add_stream(st, stream) ==
  [i \in DOMAIN st \cup {stream.id} |-> IF i = stream.id THEN stream ELSE st[i]]

\* a variant that also sets the FIN flags of every other flow with the
\* packet's source
append_packet_broadcast(st, packet) ==
  {IF l.some
   THEN IF l.val \in DOMAIN st
        THEN LET stream == IF st[l.val].source = packet.source
                           THEN append_request_packet(st[l.val], packet)
                           ELSE append_response_packet(st[l.val], packet)
             IN  [streams |-> [i \in DOMAIN st |->
                                IF i = l.val THEN stream
                                ELSE IF st[i].source = packet.source
                                     THEN [st[i] EXCEPT !.souce_fin = @ \/ packet.fin]
                                     ELSE st[i]],
                  ret |-> Some(<<l.val, is_complete(stream)>>)]
        ELSE [streams |-> st, ret |-> None]
   ELSE [streams |-> st, ret |-> None] :
   l \in lookup_stream_id(st, packet.source, packet.dest)}

\* Store::append_packet: the possible outcomes, each with the store it leaves
append_packet(st, packet) ==
  {IF l.some
   THEN IF l.val \in DOMAIN st
        THEN LET stream == IF st[l.val].source = packet.source
                           THEN append_request_packet(st[l.val], packet)
                           ELSE append_response_packet(st[l.val], packet)
             IN  [streams |-> [st EXCEPT ![l.val] = stream],
                  ret |-> Some(<<l.val, is_complete(stream)>>)]
        ELSE [streams |-> st, ret |-> None]
   ELSE [streams |-> st, ret |-> None] :
   l \in lookup_stream_id(st, packet.source, packet.dest)}

(***************************************************************************)
(* Ingestion loop: one iteration of main's while loop on a decoded packet  *)
(***************************************************************************)
StoreInit ==
  /\ streams = Store_new.streams
  /\ next_id = Store_new.next_id
  /\ aborted = FALSE
  /\ observed = <<>>
  /\ last = [packet |-> None, created |-> FALSE, ret |-> None,
             parsed |-> "none", res |-> None, printed |-> FALSE]
  /\ parses = [i \in {} |-> 0]
  /\ sink = <<>>

Init ==
  /\ StoreInit
  /\ args \in Filters
  /\ buf = <<>>
  /\ calls = <<>>

main(p) ==
  /\ ~aborted
  /\ Len(observed) < MaxPackets
  /\ LET create == None \in lookup_stream_id(streams, p.source, p.dest)
         g == get_next_id(next_id)
         st1 == IF create
                THEN add_stream(streams, HttpStream_new(g.id, p.source, p.dest))
                ELSE streams
     IN  /\ next_id' = IF create THEN g.next_id ELSE next_id
         /\ observed' = Append(observed, p)
         /\ \E ap \in append_packet(st1, p) :
              IF ap.ret.some /\ ap.ret.val[2]
              THEN LET id == ap.ret.val[1]
                   IN  IF id \in DOMAIN ap.streams
                       THEN \E o \in parse(ap.streams[id]) :
                              LET hit == o.res.tag = "Ok" /\ is_matching(o.stream, args)
                              IN  /\ streams' = [ap.streams EXCEPT ![id] = o.stream]
                                  /\ aborted' = (o.res.tag = "Panic")
                                  /\ parses' = [i \in DOMAIN parses \cup {id} |->
                                                 IF i = id
                                                 THEN (IF i \in DOMAIN parses THEN parses[i] ELSE 0) + 1
                                                 ELSE parses[i]]
                                  /\ sink' = IF hit THEN Append(sink, id) ELSE sink
                                  /\ last' = [packet |-> Some(p), created |-> create,
                                              ret |-> ap.ret, parsed |-> o.res.tag,
                                              res |-> Some(o.res),
                                              printed |-> hit]
                       ELSE /\ streams' = ap.streams
                            /\ last' = [packet |-> Some(p), created |-> create,
                                        ret |-> ap.ret, parsed |-> "none",
                                        res |-> None, printed |-> FALSE]
                            /\ UNCHANGED <<aborted, parses, sink>>
              ELSE /\ streams' = ap.streams
                   /\ last' = [packet |-> Some(p), created |-> create,
                               ret |-> ap.ret, parsed |-> "none",
                               res |-> None, printed |-> FALSE]
                   /\ UNCHANGED <<aborted, parses, sink>>
  /\ UNCHANGED <<args, buf, calls>>

Next == \E p \in Packets : main(p)

Spec == Init /\ [][Next]_vars

TypeOK ==
  /\ next_id \in Nat
  /\ aborted \in BOOLEAN
  /\ Len(observed) <= MaxPackets

(***************************************************************************)
(* The codec on its own: a buffer drawn from the bounded inputs, and the   *)
(* two entry points applied to it                                          *)
(***************************************************************************)
HeaderLines ==
  {Hdr("Content-Length", v) : v \in {"0", "1", "2", "x"}}
    \cup {Hdr("content-length", v) : v \in {"1", "2"}}
    \cup {Hdr(n, v) : n \in {"Content-Encoding", "content-encoding"},
                      v \in {"gzip", "br"}}
    \cup {Hdr("Host", "xFF")}

SeqsUpTo(S, n) == UNION {[1..m -> S] : m \in 0..n}

CodecInputs ==
  {<<line>> \o hs \o end \o body :
     line \in {ReqLine(<<"/", "a">>), StaLine},
     hs \in SeqsUpTo(HeaderLines, MaxHeaders),
     end \in {<<>>, <<End>>},
     body \in SeqsUpTo({Body(b) : b \in BodyData}, MaxBody)}

CodecInit ==
  /\ StoreInit
  /\ args = None
  /\ buf \in CodecInputs
  /\ calls = <<>>

call_parse_request ==
  /\ Len(calls) < MaxCalls
  /\ \E r \in parse_request(buf) :
       calls' = Append(calls, [fn |-> "parse_request", res |-> r])
  /\ UNCHANGED <<streams, next_id, args, aborted, observed, last, parses,
                 sink, buf>>

call_parse_response ==
  /\ Len(calls) < MaxCalls
  /\ \E r \in parse_response(buf) :
       calls' = Append(calls, [fn |-> "parse_response", res |-> r])
  /\ UNCHANGED <<streams, next_id, args, aborted, observed, last, parses,
                 sink, buf>>

CodecNext == call_parse_request \/ call_parse_response

CodecSpec == CodecInit /\ [][CodecNext]_vars

(***************************************************************************)
(* The ingestion loop on the capture of one connection: the client a sends *)
(* a whole request in each of its packets, the server b sends buf, a       *)
(* response buffer drawn from the bounded inputs; every packet carries FIN *)
(***************************************************************************)
ResponseInputs == {b \in CodecInputs : b[1] = StaLine}

ConnPackets(b) ==
  {[source |-> "a", dest |-> "b", payload |-> ReqBytes, fin |-> TRUE],
   [source |-> "b", dest |-> "a", payload |-> b, fin |-> TRUE]}

ConnInit ==
  /\ StoreInit
  /\ args = None
  /\ buf \in ResponseInputs
  /\ calls = <<>>

ConnNext == \E p \in ConnPackets(buf) : main(p)

ConnSpec == ConnInit /\ [][ConnNext]_vars

(***************************************************************************)
(* The ingestion loop on the capture of one connection under a path        *)
(* filter: the client a sends buf, a request with a path drawn from the    *)
(* bounded paths, with or without a body; the server b sends a response    *)
(* with or without a body; every packet carries FIN                        *)
(***************************************************************************)
PathChars == {"/", "a", "b"}

Paths == {<<"/">> \o t : t \in SeqsUpTo(PathChars, MaxPath)}

FilterArgs == {None} \cup {Some(t) : t \in SeqsUpTo(PathChars, MaxPath)}

RequestInputs ==
  {<<ReqLine(path), End>> : path \in Paths}
    \cup {<<ReqLine(path), Hdr("Content-Length", "1"), End, Body("sp")>> :
            path \in Paths}

FilterPackets(b) ==
  {[source |-> "a", dest |-> "b", payload |-> b, fin |-> TRUE],
   [source |-> "b", dest |-> "a", payload |-> RespBytes, fin |-> TRUE],
   [source |-> "b", dest |-> "a",
    payload |-> <<StaLine, Hdr("Content-Length", "1"), End, Body("sp")>>,
    fin |-> TRUE]}

FilterInit ==
  /\ StoreInit
  /\ args \in FilterArgs
  /\ buf \in RequestInputs
  /\ calls = <<>>

FilterNext == \E p \in FilterPackets(buf) : main(p)

FilterSpec == FilterInit /\ [][FilterNext]_vars

(***************************************************************************)
(* Properties of the ingestion loop                                        *)
(***************************************************************************)
SamePair(p, q) ==
  \/ p.source = q.source /\ p.dest = q.dest
  \/ p.source = q.dest /\ p.dest = q.source

Reversed(p, q) == p.source = q.dest /\ p.dest = q.source

Holds(s, p) == \E k \in 1..Len(s.packets) : s.packets[k] = p

\* C1: direction-agnostic correlation.  Whenever a packet from A to B was
\* observed and a later one from B to A, both lookups return the one same
\* id, the flow of that id holds both packets, and the iteration that took
\* the reversed packet created no flow.
DirectionAgnostic ==
  \A i, j \in 1..Len(observed) :
    (i < j /\ Reversed(observed[i], observed[j])) =>
      /\ \E id \in DOMAIN streams :
           /\ lookup_stream_id(streams, observed[i].source, observed[i].dest)
                = {Some(id)}
           /\ lookup_stream_id(streams, observed[j].source, observed[j].dest)
                = {Some(id)}
           /\ Holds(streams[id], observed[i])
           /\ Holds(streams[id], observed[j])
      /\ (j = Len(observed) => ~last.created /\ last.ret.some)

DirectionAgnosticWitness ==
  /\ Len(observed) >= 2
  /\ observed[1].source # observed[1].dest
  /\ Reversed(observed[1], observed[Len(observed)])
  /\ last.ret.some

\* C2: completion requires both sides.  In every iteration append_packet
\* reports complete exactly when both FIN flags of the flow are set; a
\* packet without FIN leaves a flow that was not complete not complete; and
\* the report turns to complete exactly on a FIN packet that sets the one
\* flag still missing while the other flag was set before.
PreStream(id, p) ==
  IF id \in DOMAIN streams THEN streams[id]
  ELSE HttpStream_new(id, p.source, p.dest)

CompletionStep ==
  (last'.packet.some /\ last'.ret.some /\ observed' # observed) =>
    LET p == last'.packet.val
        id == last'.ret.val[1]
        reported == last'.ret.val[2]
        pre == PreStream(id, p)
        post == streams'[id]
        wasComplete == pre.souce_fin /\ pre.dest_fin
        setsSecond ==
          /\ p.fin
          /\ \/ p.source = pre.source /\ ~pre.souce_fin /\ pre.dest_fin
             \/ p.source # pre.source /\ ~pre.dest_fin /\ pre.souce_fin
    IN  /\ reported <=> (post.souce_fin /\ post.dest_fin)
        /\ (~wasComplete /\ ~p.fin) => ~reported
        /\ ~wasComplete => (reported <=> setsSecond)

CompletionRequiresBothSides == [][CompletionStep]_vars

CompletionWitness ==
  \E id \in DOMAIN streams :
    LET s == streams[id]
    IN  /\ Len(s.packets) = 3
        /\ ~s.packets[1].fin
        /\ s.packets[2].source # s.source /\ s.packets[2].fin
        /\ s.packets[3].source = s.source /\ s.packets[3].fin
        /\ last.ret = Some(<<id, TRUE>>)

\* C3: routing to exactly one direction.  An iteration whose packet comes
\* from the flow's initiator adds the payload to the request bytes and ORs
\* the FIN into the initiator flag, and leaves the response bytes and the
\* responder flag as they were; any other packet does the same on the
\* response side and leaves the request side as it was.
RoutingStep ==
  (last'.packet.some /\ last'.ret.some /\ observed' # observed) =>
    LET p == last'.packet.val
        id == last'.ret.val[1]
        pre == PreStream(id, p)
        post == streams'[id]
    IN  IF p.source = pre.source
        THEN /\ collect_request(post) = collect_request(pre) \o p.payload
             /\ post.souce_fin = (pre.souce_fin \/ p.fin)
             /\ collect_response(post) = collect_response(pre)
             /\ post.dest_fin = pre.dest_fin
        ELSE /\ collect_response(post) = collect_response(pre) \o p.payload
             /\ post.dest_fin = (pre.dest_fin \/ p.fin)
             /\ collect_request(post) = collect_request(pre)
             /\ post.souce_fin = pre.souce_fin

RoutesToOneDirection == [][RoutingStep]_vars

\* C4: arrival order.  In every state the request bytes of a flow are the
\* payloads of the observed packets of its endpoint pair that came from its
\* initiator, concatenated in the order observed, and the response bytes
\* those that came from its responder.
RECURSIVE ObservedBytes(_, _, _)
ObservedBytes(obs, s, e) ==
  IF obs = <<>> THEN <<>>
  ELSE (IF SamePair(Head(obs), s) /\ Head(obs).source = e
        THEN Head(obs).payload ELSE <<>>)
       \o ObservedBytes(Tail(obs), s, e)

ArrivalOrder ==
  \A id \in DOMAIN streams :
    LET s == streams[id]
    IN  /\ collect_request(s) = ObservedBytes(observed, s, s.source)
        /\ collect_response(s) = ObservedBytes(observed, s, s.dest)

ArrivalOrderWitness ==
  \E id \in DOMAIN streams :
    LET s == streams[id]
    IN  /\ Len(observed) = 3
        /\ ~SamePair(observed[2], s)
        /\ s.source # s.dest
        /\ SamePair(observed[1], s) /\ SamePair(observed[3], s)
        /\ collect_request(s) # <<>>
        /\ collect_response(s) # <<>>
        /\ id \in DOMAIN parses

\* C5: flow ids.  The ids in the store are exactly 0 .. next_id - 1, each
\* flow is stored under its own id, a flow with a smaller id was created
\* earlier (its first packet was observed earlier), and an iteration that
\* creates a flow gives it the id next_id had, above every id given before.
FirstIdx(s) ==
  CHOOSE k \in 1..Len(observed) :
    /\ SamePair(observed[k], s)
    /\ \A m \in 1..(k - 1) : ~SamePair(observed[m], s)

IdsIncreasing ==
  /\ DOMAIN streams = 0..(next_id - 1)
  /\ \A id \in DOMAIN streams :
       /\ streams[id].id = id
       /\ id < next_id
       /\ \E k \in 1..Len(observed) : SamePair(observed[k], streams[id])
  /\ \A i, j \in DOMAIN streams :
       i < j => FirstIdx(streams[i]) < FirstIdx(streams[j])
  /\ last.created =>
       /\ last.ret.some
       /\ last.ret.val[1] = next_id - 1

IdsIncreasingWitness ==
  /\ next_id = 3
  /\ last.created
  /\ Cardinality(DOMAIN streams) = 3

\* C6: fixed endpoints.  In every state the initiator and the responder of
\* a flow are the source and the destination of the first observed packet
\* of its endpoint pair, whatever packets followed.
EndpointsFixed ==
  \A id \in DOMAIN streams :
    LET s == streams[id]
    IN  /\ \E k \in 1..Len(observed) : SamePair(observed[k], s)
        /\ s.source = observed[FirstIdx(s)].source
        /\ s.dest = observed[FirstIdx(s)].dest

EndpointsFixedWitness ==
  \E id \in DOMAIN streams :
    LET s == streams[id]
    IN  /\ s.source # s.dest
        /\ Len(s.packets) = 3
        /\ s.packets[2].source = s.dest /\ s.packets[2].fin
        /\ s.packets[3].fin
        /\ s.souce_fin /\ s.dest_fin
        /\ s.source = s.packets[1].source

\* C7: a parse failure is local to its flow.  After an iteration whose
\* parse did not succeed the loop is still running, so that later packets
\* are still taken.
ParseFailureIsLocal ==
  (last.parsed # "none" /\ last.parsed # "Ok") => ~aborted

\* C8: parsed at most once.  No flow is parsed more than once and no flow
\* is handed to the sink more than once.
ParsedAtMostOnce ==
  /\ \A id \in DOMAIN parses : parses[id] <= 1
  /\ \A i, j \in 1..Len(sink) : sink[i] = sink[j] => i = j

\* C9: parsing only on completion.  A flow is parsed only in an iteration
\* whose packet leaves both FIN flags set, every iteration that leaves them
\* set parses, and a flow that lacks a FIN flag has never been parsed and
\* has both parsed slots empty.
ParseOnlyWhenComplete ==
  /\ DOMAIN parses \subseteq DOMAIN streams
  /\ \A id \in DOMAIN streams :
       LET s == streams[id]
       IN  IF s.souce_fin /\ s.dest_fin
           THEN id \in DOMAIN parses /\ parses[id] >= 1
           ELSE /\ id \notin DOMAIN parses
                /\ s.request = None
                /\ s.response = None
  /\ last.parsed # "none" =>
       /\ last.ret.some
       /\ last.ret.val[2]
       /\ streams[last.ret.val[1]].souce_fin
       /\ streams[last.ret.val[1]].dest_fin
  /\ (last.ret.some /\ last.ret.val[2]) => last.parsed # "none"

ParseOnlyWhenCompleteWitness ==
  \E i, j \in DOMAIN streams :
    /\ i \in DOMAIN parses
    /\ streams[i].request.some
    /\ streams[i].response.some
    /\ streams[j].souce_fin /\ ~streams[j].dest_fin
    /\ j \notin DOMAIN parses

(***************************************************************************)
(* Properties of the codec                                                 *)
(***************************************************************************)
\* C10: Content-Encoding in any letter case.  When parse_response returns
\* a response with a body that is not empty and the header block names the encoding once, in
\* whatever letter case, then the encoding is gzip and the body is the
\* decompressed text; any other value would have been an error.
ContentEncodingAnyCase ==
  \A i \in 1..Len(calls) :
    LET c == calls[i]
    IN  (/\ c.fn = "parse_response"
         /\ c.res.tag = "Ok"
         /\ c.res.val.body.some
         /\ c.res.val.body.val # <<>>) =>
          LET h == c.res.val.headers
              keys == {k \in DOMAIN h : to_lowercase(k) = "content-encoding"}
          IN  Cardinality(keys) = 1 =>
                \A k \in keys :
                  /\ h[k] = "gzip"
                  /\ \A u \in 1..Len(c.res.val.body.val) :
                       c.res.val.body.val[u] = GzPlain

(***************************************************************************)
(* Properties of the codec inside the loop                                 *)
(***************************************************************************)
\* the header block of b is complete and holds text only
HeadOk(b, start) ==
  LET res == httparse(b, start)
  IN  /\ res.st = "Complete"
      /\ \A i \in 1..Len(res.headers) : Utf8Value(res.headers[i].value)

HeadersOf(b, start) == insert_headers(EmptyMap, httparse(b, start).headers)

RestOf(b, start) == split_off(b, httparse(b, start).n)

\* b is a response whose body is there (every Content-Length the lookup can
\* return is a number from 1 to the units that follow the header block) and
\* that declares a Content-Encoding other than gzip
UnknownEncodingInput(b) ==
  /\ HeadOk(b, "sta")
  /\ \A cl \in get_content_length(HeadersOf(b, "sta")) :
       cl.some /\ cl.val >= 1 /\ cl.val <= Len(RestOf(b, "sta"))
  /\ "Content-Encoding" \in DOMAIN HeadersOf(b, "sta")
  /\ HeadersOf(b, "sta")["Content-Encoding"] # "gzip"

StartOf(fn) == IF fn = "parse_request" THEN "req" ELSE "sta"

\* C12: no length, no body.  For parse_request and for parse_response
\* alike, when the header block is complete and the Content-Length is
\* absent, not a number, or 0, the call returns a message without a body
\* (and so no error from the encoding either).
NoLengthNoBody ==
  \A i \in 1..Len(calls) :
    LET c == calls[i]
        start == StartOf(c.fn)
    IN  (/\ HeadOk(buf, start)
         /\ \A cl \in get_content_length(HeadersOf(buf, start)) :
              ~cl.some \/ cl.val = 0) =>
          /\ c.res.tag = "Ok"
          /\ c.res.val.body = None

\* C13: the codec is total.  No call of parse_request or parse_response
\* aborts: each returns a message or an error value.
CodecNeverAborts ==
  \A i \in 1..Len(calls) : calls[i].res.tag # "Panic"

\* the response asks for gzip on a body of length 0, where the outcome is
\* the decoder's and is left open above
EmptyGzip(b) ==
  /\ HeadOk(b, "sta")
  /\ get_content_encoding(HeadersOf(b, "sta")) = Some("gzip")
  /\ Some(0) \in get_content_length(HeadersOf(b, "sta"))

\* C14: parsing is deterministic.  Two calls of the same entry point on
\* the same buffer return the same message or the same error.
CodecDeterministic ==
  \A i, j \in 1..Len(calls) :
    (/\ calls[i].fn = calls[j].fn
     /\ ~(calls[i].fn = "parse_response" /\ EmptyGzip(buf))) =>
      calls[i].res = calls[j].res

(***************************************************************************)
(* Further properties of the ingestion loop                                *)
(***************************************************************************)
\* C15: no hard close.  An iteration whose packet belongs to a flow that
\* was complete already stores the packet at the end of the flow's packets
\* and reports the flow complete again.
AfterCompletionStep ==
  (last'.packet.some /\ last'.ret.some /\ observed' # observed) =>
    LET p == last'.packet.val
        id == last'.ret.val[1]
        pre == PreStream(id, p)
        post == streams'[id]
    IN  (pre.souce_fin /\ pre.dest_fin) =>
          /\ post.packets = Append(pre.packets, p)
          /\ last'.ret.val[2]
          /\ post.souce_fin /\ post.dest_fin

StaysComplete == [][AfterCompletionStep]_vars

StaysCompleteWitness ==
  \E id \in DOMAIN streams :
    LET s == streams[id]
    IN  /\ Len(s.packets) = 3
        /\ s.packets[1].fin /\ s.packets[2].fin
        /\ s.packets[2].source # s.source
        /\ ~s.packets[3].fin
        /\ s.packets[3].source = s.source
        /\ s.packets[3].payload # <<>>
        /\ last.ret = Some(<<id, TRUE>>)

\* C16: the flow is always found.  After every iteration append_packet
\* has returned an id with a completion flag, and the id is a key of the
\* store.
FlowAlwaysFound ==
  last.packet.some =>
    /\ last.ret.some
    /\ last.ret.val[1] \in DOMAIN streams

FlowAlwaysFoundWitness ==
  /\ Len(observed) = 3
  /\ last.created
  /\ last.ret.some
  /\ last.ret.val[1] = 1
  /\ Reversed(observed[1], observed[2])

\* C18: one flow per endpoint pair.  No two flows of the store have the
\* same unordered pair of endpoints, each flow is stored under its own id,
\* and there are as many flows as unordered pairs among the observed
\* packets.
OneFlowPerPair ==
  /\ \A i, j \in DOMAIN streams :
       SamePair(streams[i], streams[j]) => i = j
  /\ \A i \in DOMAIN streams : streams[i].id = i
  /\ Cardinality(DOMAIN streams) =
       Cardinality({{observed[k].source, observed[k].dest} :
                      k \in 1..Len(observed)})

OneFlowPerPairWitness ==
  /\ Len(observed) = 3
  /\ Cardinality(DOMAIN streams) = 2
  /\ \E i, j \in 1..Len(observed) :
       /\ i < j
       /\ observed[i].source # observed[i].dest
       /\ Reversed(observed[i], observed[j])

\* C19: other flows are left alone.  An iteration changes no flow of the
\* store other than the one its packet was appended to.
OtherFlowsStep ==
  (last'.packet.some /\ last'.ret.some /\ observed' # observed) =>
    \A id \in DOMAIN streams :
      id # last'.ret.val[1] =>
        /\ id \in DOMAIN streams'
        /\ streams'[id] = streams[id]

OtherFlowsUnchanged == [][OtherFlowsStep]_vars

OtherFlowsWitness ==
  \E i, j \in DOMAIN streams :
    /\ i # j
    /\ streams[i].request.some
    /\ streams[i].response.some
    /\ streams[i].source = streams[j].source
    /\ last.ret.some
    /\ last.ret.val[1] = j
    /\ last.packet.val.fin

\* C20: request before response.  A flow's response slot is filled only
\* if its request slot is filled, and an iteration hands a flow to the sink
\* only if its parse succeeded for the request and for the response.
RequestBeforeResponse ==
  /\ \A id \in DOMAIN streams :
       streams[id].response.some => streams[id].request.some
  /\ last.printed =>
       /\ last.parsed = "Ok"
       /\ streams[last.ret.val[1]].request.some
       /\ streams[last.ret.val[1]].response.some
       /\ parse_request(collect_request(streams[last.ret.val[1]]))
            = {Ok(streams[last.ret.val[1]].request.val)}
       /\ parse_response(collect_response(streams[last.ret.val[1]]))
            = {Ok(streams[last.ret.val[1]].response.val)}
  /\ \A k \in 1..Len(sink) :
       /\ sink[k] \in DOMAIN streams
       /\ streams[sink[k]].request.some
       /\ streams[sink[k]].response.some

\* a flow whose first parse failed and whose second parse succeeded
RequestBeforeResponseWitness ==
  /\ last.printed
  /\ Len(sink) = 1
  /\ parses[last.ret.val[1]] = 2
  /\ streams[last.ret.val[1]].response.some

(***************************************************************************)
(* Properties of the filter                                                *)
(***************************************************************************)
IsSubstring(pat, text) ==
  \E i, j \in 0..Len(text) : i <= j /\ SubSeq(text, i + 1, j) = pat

\* the path of the request line that opens the buffer b
PathOf(b) == b[1].path

\* C17: the filter reads the request path only.  An iteration whose parse
\* succeeded hands the flow to the sink exactly when no filter is set or
\* the filter occurs in the path of the request as a literal substring,
\* whatever the headers, the bodies and the response are.
FilterReadsPathOnly ==
  last.parsed = "Ok" =>
    /\ streams[last.ret.val[1]].request.some
    /\ streams[last.ret.val[1]].request.val.path = PathOf(buf)
    /\ last.printed <=> (~args.some \/ IsSubstring(args.val, PathOf(buf)))

FilterWitness ==
  /\ last.printed
  /\ args = Some(<<"a">>)
  /\ PathOf(buf) = <<"/", "b", "a">>
  /\ streams[last.ret.val[1]].request.val.body.some
  /\ streams[last.ret.val[1]].response.val.body.some

====
